---------------------------- MODULE Spec2Model ----------------------------
(***************************************************************************)
(* Model of the paper-trading bot (paperstrat.go): the scan cycle runScan  *)
(* with its eligibility filter, min-max scoring, exit rules, entry rule,   *)
(* wallet accounting and trade / wallet logs, driven by the ticker loop of *)
(* main.                                                                    *)
(*                                                                         *)
(* float64 quantities are modelled as exact rationals <<n, d>> (d > 0, in  *)
(* lowest terms) and the value NaN; wall-clock time is an integer number   *)
(* of seconds.                                                             *)
(***************************************************************************)
EXTENDS Integers, Sequences, FiniteSets, TLC

(***************************************************************************)
(* Rational arithmetic                                                     *)
(***************************************************************************)
Abs(x) == IF x < 0 THEN -x ELSE x

RECURSIVE GCD(_, _)
GCD(a, b) == IF b = 0 THEN a ELSE GCD(b, a % b)

LCM(a, b) == (a \div GCD(a, b)) * b

R(n, d) == LET g == GCD(Abs(n), d) IN <<n \div g, d \div g>>

Zero == <<0, 1>>
One == <<1, 1>>

\* the float64 value NaN: every comparison with it is false and every
\* arithmetic operation on it gives NaN
NaN == <<0, 0>>
IsNaN(a) == a[2] = 0

RAdd(a, b) == IF IsNaN(a) \/ IsNaN(b) THEN NaN
              ELSE LET l == LCM(a[2], b[2])
                   IN  R(a[1] * (l \div a[2]) + b[1] * (l \div b[2]), l)
RNeg(a) == <<-a[1], a[2]>>
RSub(a, b) == RAdd(a, RNeg(b))
RMul(a, b) == IF IsNaN(a) \/ IsNaN(b) THEN NaN
              ELSE LET g1 == GCD(Abs(a[1]), b[2])
                       g2 == GCD(Abs(b[1]), a[2])
                   IN  R((a[1] \div g1) * (b[1] \div g2), (a[2] \div g2) * (b[2] \div g1))
RInv(a) == IF IsNaN(a) THEN NaN
           ELSE IF a[1] < 0 THEN <<-a[2], -a[1]>> ELSE <<a[2], a[1]>>
RDiv(a, b) == RMul(a, RInv(b))
RLt(a, b) == /\ ~IsNaN(a) /\ ~IsNaN(b)
             /\ LET l == LCM(a[2], b[2])
                IN  a[1] * (l \div a[2]) < b[1] * (l \div b[2])
RLe(a, b) == /\ ~IsNaN(a) /\ ~IsNaN(b)
             /\ LET l == LCM(a[2], b[2])
                IN  a[1] * (l \div a[2]) <= b[1] * (l \div b[2])
RGt(a, b) == RLt(b, a)
RGe(a, b) == RLe(b, a)
\* math.Max and math.Min return NaN when an argument is NaN
RMax(a, b) == IF IsNaN(a) \/ IsNaN(b) THEN NaN ELSE IF RLt(a, b) THEN b ELSE a
RMin(a, b) == IF IsNaN(a) \/ IsNaN(b) THEN NaN ELSE IF RLt(b, a) THEN b ELSE a

(***************************************************************************)
(* Program constants (paperstrat.go, const block)                          *)
(***************************************************************************)
refreshInterval == 30
tradeSizeSOL == <<1, 1>>
simulatedFeePercent == R(3, 1000)
minLiquidityUSD == <<2000, 1>>
minVolume5mUSD == <<500, 1>>
minPairAgeSeconds == 3600
wM5Change == R(30, 100)
wH1Change == R(15, 100)
wM5Volume == R(20, 100)
wM5BuySellRatio == R(25, 100)
wLiquidity == R(10, 100)
minScoreToEnter == R(65, 100)
takeProfitThreshold == R(105, 100)
trailingStopLossPercent == R(3, 100)
momentumFadeExitM5 == R(1, 1000)
liquidityDropPercent == R(30, 100)
momentumFadeDwell == 300
InitialSOL == <<10, 1>>


(***************************************************************************)
(* parseFloat: strconv.ParseFloat on a subset of its grammar: decimals     *)
(* (optional sign, digits, at most one point, at least one digit) and the  *)
(* spellings of NaN, which it accepts without error.  A string is a        *)
(* sequence of one-character strings.  Anything else is a parse error and  *)
(* yields the default.  Exponents, hexadecimal floats and infinities are   *)
(* not in the subset.                                                      *)
(***************************************************************************)
NaNSpellings == { <<"N", "a", "N">>, <<"n", "a", "n">>, <<"N", "A", "N">> }

DigitChars == <<"0", "1", "2", "3", "4", "5", "6", "7", "8", "9">>

IsDigit(c) == \E i \in 1..10 : DigitChars[i] = c

DigitVal(c) == (CHOOSE i \in 1..10 : DigitChars[i] = c) - 1

RECURSIVE Pow10(_)
Pow10(k) == IF k = 0 THEN 1 ELSE 10 * Pow10(k - 1)

RECURSIVE DigitsVal(_)
DigitsVal(s) == IF s = <<>> THEN 0
                ELSE 10 * DigitsVal(SubSeq(s, 1, Len(s) - 1)) + DigitVal(s[Len(s)])

ParseDecimal(s) ==
    LET signed == s # <<>> /\ s[1] \in {"-", "+"}
        neg    == s # <<>> /\ s[1] = "-"
        body   == IF signed THEN Tail(s) ELSE s
        dots   == {i \in 1..Len(body) : body[i] = "."}
        digs   == SelectSeq(body, IsDigit)
        ok     == /\ \A i \in 1..Len(body) : IsDigit(body[i]) \/ body[i] = "."
                  /\ Cardinality(dots) <= 1
                  /\ Len(digs) >= 1
        scale  == IF dots = {} THEN 0 ELSE Len(body) - (CHOOSE i \in dots : TRUE)
        mag    == R(DigitsVal(digs), Pow10(scale))
    IN  IF s \in NaNSpellings THEN [ok |-> TRUE, val |-> NaN]
        ELSE [ok |-> ok, val |-> IF ~ok THEN Zero ELSE IF neg THEN RNeg(mag) ELSE mag]

parseFloat(val, defaultVal) ==
    LET p == ParseDecimal(val) IN IF ~p.ok THEN defaultVal ELSE p.val

calculateBuySellRatio_ZeroWhenEmpty(buys, sells) ==
    LET totalTxns == buys + sells
    IN  IF totalTxns = 0 THEN Zero ELSE R(buys, totalTxns)

calculateBuySellRatio(buys, sells) ==
    LET totalTxns == buys + sells
    IN  IF totalTxns = 0 THEN <<1, 2>> ELSE R(buys, totalTxns)

normalize_Inverted(value, min, max) ==
    IF RSub(max, min) = Zero THEN Zero
    ELSE RDiv(RSub(max, value), RSub(max, min))

normalize_HalfWhenFlat(value, min, max) ==
    IF RSub(max, min) = Zero THEN <<1, 2>>
    ELSE RDiv(RSub(value, min), RSub(max, min))

normalize(value, min, max) ==
    IF RSub(max, min) = Zero THEN Zero
    ELSE RDiv(RSub(value, min), RSub(max, min))

(***************************************************************************)
(* fetchDexScreenerPairs.  An upstream response is                         *)
(*   [kind, pairs] with kind one of                                        *)
(*     "ok"       200 and a decodable body carrying pairs                  *)
(*     "neterr"   client.Get failed (network error or 10 s timeout)        *)
(*     "status"   non-200 status (rate limiting, server error)             *)
(*     "readerr"  the body could not be read                               *)
(*     "empty"    200 with an empty body                                   *)
(*     "badjson"  200 with an undecodable body                             *)
(*     "nopairs"  200 with a body whose pairs field is null                *)
(* The result is [err, pairs].                                             *)
(***************************************************************************)
solanaChainID == "solana"

ResponseKinds == {"ok", "neterr", "status", "readerr", "empty", "badjson", "nopairs"}

fetchDexScreenerPairs_NoStatusCheck(resp) ==
    IF resp.kind = "neterr" THEN [err |-> TRUE, pairs |-> <<>>]
    ELSE IF resp.kind = "readerr" THEN [err |-> TRUE, pairs |-> <<>>]
    ELSE IF resp.kind = "empty" THEN [err |-> FALSE, pairs |-> <<>>]
    ELSE IF resp.kind = "badjson" THEN [err |-> TRUE, pairs |-> <<>>]
    ELSE IF resp.kind = "nopairs" THEN [err |-> FALSE, pairs |-> <<>>]
    ELSE [err |-> FALSE,
          pairs |-> SelectSeq(resp.pairs, LAMBDA p : p.ChainID = solanaChainID)]

fetchDexScreenerPairs(resp) ==
    IF resp.kind = "neterr" THEN [err |-> TRUE, pairs |-> <<>>]
    ELSE IF resp.kind = "status" THEN [err |-> TRUE, pairs |-> <<>>]
    ELSE IF resp.kind = "readerr" THEN [err |-> TRUE, pairs |-> <<>>]
    ELSE IF resp.kind = "empty" THEN [err |-> FALSE, pairs |-> <<>>]
    ELSE IF resp.kind = "badjson" THEN [err |-> TRUE, pairs |-> <<>>]
    ELSE IF resp.kind = "nopairs" THEN [err |-> FALSE, pairs |-> <<>>]
    ELSE [err |-> FALSE,
          pairs |-> SelectSeq(resp.pairs, LAMBDA p : p.ChainID = solanaChainID)]

(***************************************************************************)
(* runScan, step 2: eligibility filter and extraction into TokenInfo       *)
(***************************************************************************)
Eligible(pair, now) ==
    /\ pair.QuoteToken.Symbol = "SOL"
    /\ ~RLt(pair.Liquidity.Usd, minLiquidityUSD)
    /\ ~RLt(pair.Volume.M5, minVolume5mUSD)
    /\ ~((pair.PairCreatedAt \div 1000) > now - minPairAgeSeconds)
    /\ ~RLe(parseFloat(pair.PriceNative, <<-1, 1>>), Zero)

TokenInfoOf(pair) ==
    [PairAddress        |-> pair.PairAddress,
     BaseTokenSymbol    |-> pair.BaseToken.Symbol,
     BaseTokenAddr      |-> pair.BaseToken.Address,
     QuoteTokenSymbol   |-> pair.QuoteToken.Symbol,
     QuoteTokenAddr     |-> pair.QuoteToken.Address,
     PairCreatedAt      |-> pair.PairCreatedAt \div 1000,
     PriceNative        |-> parseFloat(pair.PriceNative, <<-1, 1>>),
     LiquidityUSD       |-> pair.Liquidity.Usd,
     PriceChangeM5      |-> pair.PriceChange.M5,
     PriceChangeH1      |-> pair.PriceChange.H1,
     VolumeM5           |-> pair.Volume.M5,
     M5BuySellRatio     |-> calculateBuySellRatio(pair.Txns.M5.Buys, pair.Txns.M5.Sells),
     NormM5Change       |-> Zero,
     NormH1Change       |-> Zero,
     NormM5Volume       |-> Zero,
     NormM5BuySellRatio |-> Zero,
     NormLiquidity      |-> Zero,
     Score              |-> Zero]

RECURSIVE Candidates(_, _)
Candidates(pairs, now) ==
    IF pairs = <<>> THEN <<>>
    ELSE LET rest == Candidates(SubSeq(pairs, 1, Len(pairs) - 1), now)
             pair == pairs[Len(pairs)]
         IN  IF Eligible(pair, now) THEN Append(rest, TokenInfoOf(pair)) ELSE rest

\* map PairAddress -> TokenInfo; a later entry for the same address overwrites
CurrentPairData(candidates) ==
    [a \in {candidates[i].PairAddress : i \in 1..Len(candidates)} |->
        candidates[CHOOSE i \in 1..Len(candidates) :
                      /\ candidates[i].PairAddress = a
                      /\ \A j \in 1..Len(candidates) :
                            candidates[j].PairAddress = a => j <= i]]

(***************************************************************************)
(* calculateScores                                                         *)
(***************************************************************************)
RECURSIVE SeqMin(_)
SeqMin(s) ==
    IF Len(s) = 1 THEN s[1]
    ELSE RMin(SeqMin(SubSeq(s, 1, Len(s) - 1)), s[Len(s)])

RECURSIVE SeqMax(_)
SeqMax(s) ==
    IF Len(s) = 1 THEN s[1]
    ELSE RMax(SeqMax(SubSeq(s, 1, Len(s) - 1)), s[Len(s)])

WeightedScore_NoLiquidity(c) ==
    RAdd(RAdd(RAdd(RMul(c.NormM5Change, wM5Change),
                   RMul(c.NormH1Change, wH1Change)),
              RMul(c.NormM5Volume, wM5Volume)),
         RMul(c.NormM5BuySellRatio, wM5BuySellRatio))

WeightedScore_EqualWeights(c) ==
    RMul(RAdd(RAdd(RAdd(RAdd(c.NormM5Change, c.NormH1Change), c.NormM5Volume),
                   c.NormM5BuySellRatio), c.NormLiquidity),
         R(1, 5))

WeightedScore(c) ==
    RAdd(RAdd(RAdd(RAdd(RMul(c.NormM5Change, wM5Change),
                        RMul(c.NormH1Change, wH1Change)),
                   RMul(c.NormM5Volume, wM5Volume)),
              RMul(c.NormM5BuySellRatio, wM5BuySellRatio)),
         RMul(c.NormLiquidity, wLiquidity))

calculateScores_SingleScoresOne(candidates) ==
    [i \in 1..Len(candidates) |-> [candidates[i] EXCEPT !.Score = One]]

calculateScores(candidates) ==
    IF Len(candidates) < 2
    THEN [i \in 1..Len(candidates) |-> [candidates[i] EXCEPT !.Score = Zero]]
    ELSE LET n        == Len(candidates)
             m5s      == [i \in 1..n |-> candidates[i].PriceChangeM5]
             h1s      == [i \in 1..n |-> candidates[i].PriceChangeH1]
             vols     == [i \in 1..n |-> candidates[i].VolumeM5]
             ratios   == [i \in 1..n |-> candidates[i].M5BuySellRatio]
             liqs     == [i \in 1..n |-> candidates[i].LiquidityUSD]
             minM5    == SeqMin(m5s)
             maxM5    == SeqMax(m5s)
             minH1    == SeqMin(h1s)
             maxH1    == SeqMax(h1s)
             minVol   == SeqMin(vols)
             maxVol   == SeqMax(vols)
             minRatio == SeqMin(ratios)
             maxRatio == SeqMax(ratios)
             minLiq   == SeqMin(liqs)
             maxLiq   == SeqMax(liqs)
             Normed(c) ==
                 [c EXCEPT !.NormM5Change       = normalize(c.PriceChangeM5, minM5, maxM5),
                           !.NormH1Change       = normalize(c.PriceChangeH1, minH1, maxH1),
                           !.NormM5Volume       = normalize(c.VolumeM5, minVol, maxVol),
                           !.NormM5BuySellRatio = normalize(c.M5BuySellRatio, minRatio, maxRatio),
                           !.NormLiquidity      = normalize(c.LiquidityUSD, minLiq, maxLiq)]
         IN  [i \in 1..Len(candidates) |->
                 [Normed(candidates[i]) EXCEPT !.Score = WeightedScore(Normed(candidates[i]))]]

\* sort.Slice(scoredCandidates, Score descending): the orders it may leave
SortOutcomes(scored) ==
    LET n == Len(scored)
        perms == {p \in [1..n -> 1..n] : \A i, j \in 1..n : i # j => p[i] # p[j]}
    IN  {[i \in 1..n |-> scored[p[i]]] : p \in
            {q \in perms : \A i \in 1..n - 1 :
                ~RGt(scored[q[i + 1]].Score, scored[q[i]].Score)}}


(***************************************************************************)
(* runScan, step 4: exit logic                                             *)
(***************************************************************************)
\* a console line is <<message, detail>>; only SELL Signal carries a detail
Line(msg) == <<msg, "">>

liquidityThreshold(h) == RMul(h.EntryLiquidityUSD, RSub(One, liquidityDropPercent))

trailingStopPrice_FromEntry(h) ==
    RMul(h.EntryPriceNative, RSub(One, trailingStopLossPercent))

trailingStopPrice(h) == RMul(h.PeakPriceNative, RSub(One, trailingStopLossPercent))

takeProfitPrice(h) == RMul(h.EntryPriceNative, takeProfitThreshold)

UpdatePeak_Overwrite(h, currentData) ==
    [h EXCEPT !.PeakPriceNative = currentData.PriceNative]

UpdatePeak_RebasesLiquidity(h, currentData) ==
    [h EXCEPT !.PeakPriceNative = RMax(h.PeakPriceNative, currentData.PriceNative),
              !.EntryLiquidityUSD = currentData.LiquidityUSD]

UpdatePeak(h, currentData) ==
    [h EXCEPT !.PeakPriceNative = RMax(h.PeakPriceNative, currentData.PriceNative)]

SellReason_TakeProfitFirst(h, currentData, now) ==
    IF RGe(currentData.PriceNative, takeProfitPrice(h)) THEN "Take Profit"
    ELSE IF RLt(currentData.LiquidityUSD, liquidityThreshold(h)) THEN "Liquidity Drop"
    ELSE IF RLe(currentData.PriceNative, trailingStopPrice(h)) THEN "Trailing Stop Loss"
    ELSE IF /\ RLt(currentData.PriceChangeM5, momentumFadeExitM5)
            /\ now - h.EntryTime > momentumFadeDwell THEN "Momentum Fade"
    ELSE ""

SellReason_NoMomentumFade(h, currentData, now) ==
    IF RLt(currentData.LiquidityUSD, liquidityThreshold(h)) THEN "Liquidity Drop"
    ELSE IF RLe(currentData.PriceNative, trailingStopPrice(h)) THEN "Trailing Stop Loss"
    ELSE IF RGe(currentData.PriceNative, takeProfitPrice(h)) THEN "Take Profit"
    ELSE ""

SellReason_FadeWithoutDwell(h, currentData, now) ==
    IF RLt(currentData.LiquidityUSD, liquidityThreshold(h)) THEN "Liquidity Drop"
    ELSE IF RLe(currentData.PriceNative, trailingStopPrice(h)) THEN "Trailing Stop Loss"
    ELSE IF RGe(currentData.PriceNative, takeProfitPrice(h)) THEN "Take Profit"
    ELSE IF RLt(currentData.PriceChangeM5, momentumFadeExitM5) THEN "Momentum Fade"
    ELSE ""

SellReason_NoTakeProfit(h, currentData, now) ==
    IF RLt(currentData.LiquidityUSD, liquidityThreshold(h)) THEN "Liquidity Drop"
    ELSE IF RLe(currentData.PriceNative, trailingStopPrice(h)) THEN "Trailing Stop Loss"
    ELSE IF /\ RLt(currentData.PriceChangeM5, momentumFadeExitM5)
            /\ now - h.EntryTime > momentumFadeDwell THEN "Momentum Fade"
    ELSE ""

\* the if / else-if chain of exit conditions; h has its peak already updated
SellReason(h, currentData, now) ==
    IF RLt(currentData.LiquidityUSD, liquidityThreshold(h)) THEN "Liquidity Drop"
    ELSE IF RLe(currentData.PriceNative, trailingStopPrice(h)) THEN "Trailing Stop Loss"
    ELSE IF RGe(currentData.PriceNative, takeProfitPrice(h)) THEN "Take Profit"
    ELSE IF /\ RLt(currentData.PriceChangeM5, momentumFadeExitM5)
            /\ now - h.EntryTime > momentumFadeDwell THEN "Momentum Fade"
    ELSE ""

SellProceeds(h, sellPrice) ==
    LET solReceivedGross == RMul(h.AmountToken, sellPrice)
        feeAmount        == RMul(solReceivedGross, simulatedFeePercent)
        solReceivedNet   == RSub(solReceivedGross, feeAmount)
        profitLoss       == RSub(solReceivedNet, tradeSizeSOL)
    IN  [gross |-> solReceivedGross, fee |-> feeAmount,
         net |-> solReceivedNet, pnl |-> profitLoss]

SellWallet_CreditGross(w, p) ==
    [w EXCEPT !.SOLBalance       = RAdd(w.SOLBalance, p.gross),
              !.TotalFeesPaid    = RAdd(w.TotalFeesPaid, p.fee),
              !.TradesMade       = w.TradesMade + 1,
              !.ProfitableTrades = IF RGt(p.pnl, Zero) THEN w.ProfitableTrades + 1
                                   ELSE w.ProfitableTrades]

SellWallet_FeeRebate(w, p) ==
    [w EXCEPT !.SOLBalance       = RAdd(w.SOLBalance, p.net),
              !.TotalFeesPaid    = RSub(w.TotalFeesPaid, p.fee),
              !.TradesMade       = w.TradesMade + 1,
              !.ProfitableTrades = IF RGt(p.pnl, Zero) THEN w.ProfitableTrades + 1
                                   ELSE w.ProfitableTrades]

SellWallet_FeeNotRecorded(w, p) ==
    [w EXCEPT !.SOLBalance       = RAdd(w.SOLBalance, p.net),
              !.TradesMade       = w.TradesMade + 1,
              !.ProfitableTrades = IF RGt(p.pnl, Zero) THEN w.ProfitableTrades + 1
                                   ELSE w.ProfitableTrades]

SellWallet(w, p) ==
    [w EXCEPT !.SOLBalance       = RAdd(w.SOLBalance, p.net),
              !.TotalFeesPaid    = RAdd(w.TotalFeesPaid, p.fee),
              !.TradesMade       = w.TradesMade + 1,
              !.ProfitableTrades = IF RGt(p.pnl, Zero) THEN w.ProfitableTrades + 1
                                   ELSE w.ProfitableTrades]

SellLogEntry_AmountNetOfFee(h, p, sellPrice, sellReason, now) ==
    [Timestamp |-> now, Action |-> "SELL", Symbol |-> h.BaseTokenSymbol,
     PairAddress |-> h.PairAddress, SOLAmount |-> p.gross,
     TokenAmount |-> RMul(h.AmountToken, RSub(One, simulatedFeePercent)),
     PriceNative |-> sellPrice,
     FeeSOL |-> p.fee, ProfitLossSOL |-> p.pnl, Reason |-> sellReason]

SellLogEntry(h, p, sellPrice, sellReason, now) ==
    [Timestamp |-> now, Action |-> "SELL", Symbol |-> h.BaseTokenSymbol,
     PairAddress |-> h.PairAddress, SOLAmount |-> p.gross,
     TokenAmount |-> h.AmountToken, PriceNative |-> sellPrice,
     FeeSOL |-> p.fee, ProfitLossSOL |-> p.pnl, Reason |-> sellReason]

\* a phase of runScan that executes no trade
NoTrade(w, h, lines) ==
    [wallet |-> w, holding |-> h, trades |-> <<>>, console |-> lines,
     walletUpdated |-> FALSE]

\* the simulated sale of the holding h (peak already updated)
ExecuteSell(w, h, p, sellPrice, sellReason, now) ==
    [wallet |-> SellWallet(w, p),
     holding |-> [h EXCEPT !.Active = FALSE],
     trades |-> <<SellLogEntry(h, p, sellPrice, sellReason, now)>>,
     console |-> <<<<"SELL Signal", sellReason>>, Line("TRADE SELL")>>,
     walletUpdated |-> TRUE]

\* if sellReason != "" { sell } else { still holding }
ExitDecision(w, h, currentData, sellReason, now) ==
    IF sellReason # ""
    THEN ExecuteSell(w, h, SellProceeds(h, currentData.PriceNative),
                     currentData.PriceNative, sellReason, now)
    ELSE NoTrade(w, h, <<Line("HOLDING")>>)

\* the exit step for a holding whose pair data was found
ExitFound(w, h, currentData, now) ==
    ExitDecision(w, UpdatePeak(h, currentData), currentData,
                 SellReason(UpdatePeak(h, currentData), currentData, now), now)

ExitLogic_IgnoreActive(w, h, currentPairData, now) ==
    IF h.PairAddress \notin DOMAIN currentPairData
    THEN NoTrade(w, h, <<Line("PAIR DATA NOT FOUND")>>)
    ELSE ExitFound(w, h, currentPairData[h.PairAddress], now)

ExitLogic_DropMissing(w, h, currentPairData, now) ==
    IF ~h.Active
    THEN NoTrade(w, h, <<>>)
    ELSE IF h.PairAddress \notin DOMAIN currentPairData
    THEN NoTrade(w, [h EXCEPT !.Active = FALSE], <<Line("PAIR DATA NOT FOUND")>>)
    ELSE ExitFound(w, h, currentPairData[h.PairAddress], now)

\* result: wallet, holding, trade records handed to logTradeAction,
\* console lines, walletUpdated
ExitLogic(w, h, currentPairData, now) ==
    IF ~h.Active
    THEN NoTrade(w, h, <<>>)
    ELSE IF h.PairAddress \notin DOMAIN currentPairData
    THEN NoTrade(w, h, <<Line("PAIR DATA NOT FOUND")>>)
    ELSE ExitFound(w, h, currentPairData[h.PairAddress], now)

(***************************************************************************)
(* runScan, step 5: entry logic                                            *)
(***************************************************************************)
EntryFee == RMul(tradeSizeSOL, simulatedFeePercent)

solToSpend == RAdd(tradeSizeSOL, EntryFee)

EntrySignal(w, topCandidate) ==
    /\ RGe(topCandidate.Score, minScoreToEnter)
    /\ RGe(w.SOLBalance, tradeSizeSOL)

BuyWallet_NoFee(w) ==
    [w EXCEPT !.SOLBalance    = RSub(w.SOLBalance, tradeSizeSOL),
              !.TotalFeesPaid = RAdd(w.TotalFeesPaid, EntryFee)]

BuyWallet_CountsTrade(w) ==
    [w EXCEPT !.SOLBalance    = RSub(w.SOLBalance, solToSpend),
              !.TotalFeesPaid = RAdd(w.TotalFeesPaid, EntryFee),
              !.TradesMade    = w.TradesMade + 1]

BuyWallet(w) ==
    [w EXCEPT !.SOLBalance    = RSub(w.SOLBalance, solToSpend),
              !.TotalFeesPaid = RAdd(w.TotalFeesPaid, EntryFee)]

BuyHolding_NetOfFee(topCandidate, now) ==
    [Active            |-> TRUE,
     BaseTokenSymbol   |-> topCandidate.BaseTokenSymbol,
     BaseTokenAddr     |-> topCandidate.BaseTokenAddr,
     QuoteTokenSymbol  |-> topCandidate.QuoteTokenSymbol,
     QuoteTokenAddr    |-> topCandidate.QuoteTokenAddr,
     PairAddress       |-> topCandidate.PairAddress,
     AmountToken       |-> RDiv(RSub(tradeSizeSOL, EntryFee), topCandidate.PriceNative),
     EntryPriceNative  |-> topCandidate.PriceNative,
     EntryTime         |-> now,
     PeakPriceNative   |-> topCandidate.PriceNative,
     EntryLiquidityUSD |-> topCandidate.LiquidityUSD]

BuyHolding(topCandidate, now) ==
    [Active            |-> TRUE,
     BaseTokenSymbol   |-> topCandidate.BaseTokenSymbol,
     BaseTokenAddr     |-> topCandidate.BaseTokenAddr,
     QuoteTokenSymbol  |-> topCandidate.QuoteTokenSymbol,
     QuoteTokenAddr    |-> topCandidate.QuoteTokenAddr,
     PairAddress       |-> topCandidate.PairAddress,
     AmountToken       |-> RDiv(tradeSizeSOL, topCandidate.PriceNative),
     EntryPriceNative  |-> topCandidate.PriceNative,
     EntryTime         |-> now,
     PeakPriceNative   |-> topCandidate.PriceNative,
     EntryLiquidityUSD |-> topCandidate.LiquidityUSD]

BuyLogEntry(h, now) ==
    [Timestamp |-> now, Action |-> "BUY", Symbol |-> h.BaseTokenSymbol,
     PairAddress |-> h.PairAddress, SOLAmount |-> tradeSizeSOL,
     TokenAmount |-> h.AmountToken, PriceNative |-> h.EntryPriceNative,
     FeeSOL |-> EntryFee, ProfitLossSOL |-> Zero, Reason |-> ""]

ExecuteBuy(w, topCandidate, now) ==
    [wallet |-> BuyWallet(w),
     holding |-> BuyHolding(topCandidate, now),
     trades |-> <<BuyLogEntry(BuyHolding(topCandidate, now), now)>>,
     console |-> <<Line("BUY Signal"), Line("TRADE BUY")>>,
     walletUpdated |-> TRUE]

EvaluateTop_ScoreOnly(w, h, topCandidate, now) ==
    IF RGe(topCandidate.Score, minScoreToEnter)
    THEN ExecuteBuy(w, topCandidate, now)
    ELSE NoTrade(w, h, <<Line("No BUY")>>)

\* the evaluation of the top candidate
EvaluateTop(w, h, topCandidate, now) ==
    IF EntrySignal(w, topCandidate)
    THEN IF RLt(w.SOLBalance, solToSpend)
         THEN NoTrade(w, h, <<Line("BUY Signal"), Line("Insufficient SOL")>>)
         ELSE ExecuteBuy(w, topCandidate, now)
    ELSE NoTrade(w, h, <<Line("No BUY")>>)

EntryLogic_IgnoreActive(w, h, sorted, now) ==
    IF Len(sorted) > 0
    THEN EvaluateTop(w, h, sorted[1], now)
    ELSE NoTrade(w, h, <<Line("No suitable candidates")>>)

EntryLogic_NoFeeCheck(w, h, sorted, now) ==
    IF ~h.Active /\ Len(sorted) > 0
    THEN IF EntrySignal(w, sorted[1])
         THEN ExecuteBuy(w, sorted[1], now)
         ELSE NoTrade(w, h, <<Line("No BUY")>>)
    ELSE IF Len(sorted) = 0 /\ ~h.Active
    THEN NoTrade(w, h, <<Line("No suitable candidates")>>)
    ELSE NoTrade(w, h, <<>>)

\* sorted is scoredCandidates after sort.Slice
EntryLogic(w, h, sorted, now) ==
    IF ~h.Active /\ Len(sorted) > 0
    THEN EvaluateTop(w, h, sorted[1], now)
    ELSE IF Len(sorted) = 0 /\ ~h.Active
    THEN NoTrade(w, h, <<Line("No suitable candidates")>>)
    ELSE NoTrade(w, h, <<>>)

WalletLogEntryOf(w, h, now) ==
    [Timestamp |-> now, SOLBalance |-> w.SOLBalance, Holding |-> h,
     TradesMade |-> w.TradesMade, FeesPaid |-> w.TotalFeesPaid]

(***************************************************************************)
(* runScan as a whole.  sorted is one of SortOutcomes of the scored        *)
(* candidates of the cycle; the result holds the new wallet and holding,   *)
(* the records handed to the two log files and the console lines.          *)
(***************************************************************************)
ScoredCandidates(pairs, now) == calculateScores(Candidates(pairs, now))

ScanResult_WalletLogAfterExit(x, e, now) ==
    [wallet     |-> e.wallet,
     holding    |-> e.holding,
     trades     |-> x.trades \o e.trades,
     walletLogs |-> IF x.walletUpdated \/ e.walletUpdated
                    THEN <<WalletLogEntryOf(x.wallet, x.holding, now)>>
                    ELSE <<>>,
     console    |-> x.console \o e.console \o
                    (IF x.walletUpdated \/ e.walletUpdated
                     THEN <<Line("Wallet State")>> ELSE <<>>)]

\* the end of runScan: x and e are the results of the exit and entry steps
ScanResult(x, e, now) ==
    [wallet     |-> e.wallet,
     holding    |-> e.holding,
     trades     |-> x.trades \o e.trades,
     walletLogs |-> IF x.walletUpdated \/ e.walletUpdated
                    THEN <<WalletLogEntryOf(e.wallet, e.holding, now)>>
                    ELSE <<>>,
     console    |-> x.console \o e.console \o
                    (IF x.walletUpdated \/ e.walletUpdated
                     THEN <<Line("Wallet State")>> ELSE <<>>)]

\* the entry step runs on the wallet and holding the exit step has left
EntryAfterExit(x, sorted, now) ==
    ScanResult(x, EntryLogic(x.wallet, x.holding, sorted, now), now)

runScan_LookupUnfiltered(w, h, fetched, sorted, now) ==
    IF fetched.err
    THEN [wallet |-> w, holding |-> h, trades |-> <<>>, walletLogs |-> <<>>,
          console |-> <<Line("Skipping cycle")>>]
    ELSE EntryAfterExit(
             ExitLogic(w, h,
                       CurrentPairData([i \in 1..Len(fetched.pairs) |->
                                           TokenInfoOf(fetched.pairs[i])]),
                       now),
             sorted, now)

runScan(w, h, fetched, sorted, now) ==
    IF fetched.err
    THEN [wallet |-> w, holding |-> h, trades |-> <<>>, walletLogs |-> <<>>,
          console |-> <<Line("Skipping cycle")>>]
    ELSE EntryAfterExit(
             ExitLogic(w, h, CurrentPairData(Candidates(fetched.pairs, now)), now),
             sorted, now)


(***************************************************************************)
(* The market feed: raw pairs as the API returns them                      *)
(***************************************************************************)
MaxTrades == 2
MaxElapsed == 330
MaxDrainElapsed == 270

StartTime == 3 * minPairAgeSeconds

\* the time between two scans is a whole number of ticker periods
TickSteps == {5 * refreshInterval, 6 * refreshInterval}

DrainTickSteps == {refreshInterval}

MkPair(chain, addr, sym, quote, price, liq, vol, m5, h1, buys, sells, createdMs) ==
    [ChainID       |-> chain,
     PairAddress   |-> addr,
     BaseToken     |-> [Address |-> sym \o "-mint", Symbol |-> sym],
     QuoteToken    |-> [Address |-> quote \o "-mint", Symbol |-> quote],
     PriceNative   |-> price,
     Liquidity     |-> [Usd |-> liq],
     Volume        |-> [M5 |-> vol],
     PriceChange   |-> [M5 |-> m5, H1 |-> h1],
     Txns          |-> [M5 |-> [Buys |-> buys, Sells |-> sells]],
     PairCreatedAt |-> createdMs]

OldMs == 1000 * minPairAgeSeconds + 999

\* a strong candidate: top of every component when listed with a weak one
StrongPair(addr, sym, price, liq, m5) ==
    MkPair("solana", addr, sym, "SOL", price, <<liq, 1>>, <<1000, 1>>,
           <<m5, 1>>, <<10, 1>>, 9, 1, OldMs)

\* a weak candidate: bottom of every component
WeakPair(addr, sym, price) ==
    MkPair("solana", addr, sym, "SOL", price, <<2000, 1>>,
           <<500, 1>>, <<-2, 1>>, <<-5, 1>>, 1, 9, OldMs)

PairA(price, liq, m5) == StrongPair("pairA", "AAA", price, liq, m5)

PairB == WeakPair("pairB", "BBB", <<"2", ".", "0">>)

\* pair C: tops B only in 5m change: Score 0.30
PairC ==
    MkPair("solana", "pairC", "CCC", "SOL", <<"0", ".", "5">>, <<2000, 1>>,
           <<500, 1>>, <<10, 1>>, <<-5, 1>>, 1, 9, OldMs)

\* pair D: tops B in 5m change, 1h change and volume: Score exactly 0.65
PairD ==
    MkPair("solana", "pairD", "DDD", "SOL", <<"0", ".", "5">>, <<2000, 1>>,
           <<1000, 1>>, <<10, 1>>, <<10, 1>>, 1, 9, OldMs)

P100 == <<"1", ".", "0", "0">>
P104 == <<"1", ".", "0", "4">>
P105 == <<"1", ".", "0", "5">>

Feeds ==
    { <<PairA(P100, 3000, 10), PairB>>,
      <<PairA(P104, 3000, 10), PairB>>,
      <<PairA(P105, 3000, 10), PairB>>,
      <<PairA(P100, 2000, 10), PairB>>,
      <<PairA(P105, 2000, 10), PairB>>,
      <<PairA(P100, 3000, 0), PairB>>,
      <<PairA(P105, 3000, 0), PairB>>,
      <<PairA(P105, 3000, 10)>>,
      <<PairB>>,
      <<>>,
      <<PairC, PairB>>,
      <<PairD, PairB>>,
      <<PairA(<<"a", "b", "c">>, 3000, 10), PairB>> }

\* feeds in which the held pair collapses while the other pair is strong
P0005 == <<"0", ".", "0", "0", "5">>
P0001 == <<"0", ".", "0", "0", "1">>

DrainFeeds ==
    { <<StrongPair("pairA", "AAA", P100, 3000, 10), WeakPair("pairB", "BBB", P0001)>>,
      <<WeakPair("pairA", "AAA", P0005), StrongPair("pairB", "BBB", P100, 3000, 10)>>,
      <<PairC, PairB>>,
      <<>> }

ErrorKinds == {"neterr", "status", "readerr", "badjson"}

\* a failed or empty response may still carry a body; it is never used
ErrorResponses ==
    {[kind |-> k, pairs |-> <<PairA(P100, 3000, 10), PairB>>] :
        k \in ResponseKinds \ {"ok"}}

Responses == {[kind |-> "ok", pairs |-> f] : f \in Feeds} \cup ErrorResponses

DrainResponses == {[kind |-> "ok", pairs |-> f] : f \in DrainFeeds}

(***************************************************************************)
(* State                                                                   *)
(***************************************************************************)
VARIABLES
    wallet,     \* PaperWallet
    holding,    \* CurrentHolding
    tradeLog,   \* trades.json, one record per line
    walletLog,  \* wallet_log.json, one record per line
    console,    \* lines printed by the latest runScan
    pc,         \* main: "scan" = about to call runScan, "wait" = blocked on ticker.C
    now,        \* wall clock, seconds
    resp,       \* what the API answers in this cycle
    sinkOK,     \* whether appendJSONToFile succeeds in this cycle
    ticker      \* ticker.C: "none" before time.NewTicker, then "empty" or
                \* "full" (the channel buffers one tick)

vars == <<wallet, holding, tradeLog, walletLog, console, pc, now, resp, sinkOK, ticker>>

ZeroHolding ==
    [Active            |-> FALSE,
     BaseTokenSymbol   |-> "",
     BaseTokenAddr     |-> "",
     QuoteTokenSymbol  |-> "",
     QuoteTokenAddr    |-> "",
     PairAddress       |-> "",
     AmountToken       |-> Zero,
     EntryPriceNative  |-> Zero,
     EntryTime         |-> 0,
     PeakPriceNative   |-> Zero,
     EntryLiquidityUSD |-> Zero]

InitWallet ==
    [SOLBalance |-> InitialSOL, TradesMade |-> 0, ProfitableTrades |-> 0,
     TotalFeesPaid |-> Zero]

\* appendJSONToFile: the record reaches the file unless the write fails
AppendAll(file, records, ok) == IF ok THEN file \o records ELSE file

\* main up to the first runScan: initPaperTrading has run
initPaperTrading ==
    /\ wallet = InitWallet
    /\ holding = ZeroHolding
    /\ tradeLog = <<>>
    /\ sinkOK \in BOOLEAN
    /\ walletLog = AppendAll(<<>>, <<WalletLogEntryOf(InitWallet, ZeroHolding, StartTime)>>,
                             sinkOK)
    /\ console = <<>>
    /\ pc = "scan"
    /\ now = StartTime
    /\ ticker = "none"

Init == initPaperTrading /\ resp \in Responses

InitDrain == initPaperTrading /\ sinkOK /\ resp \in DrainResponses

(***************************************************************************)
(* Actions                                                                 *)
(***************************************************************************)
Scan_RollbackOnFailedWrite ==
    /\ pc = "scan"
    /\ \E fetched \in {fetchDexScreenerPairs(resp)} :
       \E sorted \in SortOutcomes(ScoredCandidates(fetched.pairs, now)) :
       \E r \in {runScan(wallet, holding, fetched, sorted, now)} :
          /\ wallet' = IF sinkOK THEN r.wallet ELSE wallet
          /\ holding' = IF sinkOK THEN r.holding ELSE holding
          /\ tradeLog' = AppendAll(tradeLog, r.trades, sinkOK)
          /\ walletLog' = AppendAll(walletLog, r.walletLogs, sinkOK)
          /\ console' = r.console
    /\ pc' = "wait"
    /\ ticker' = IF ticker = "none" THEN "empty" ELSE ticker
    /\ UNCHANGED <<now, resp, sinkOK>>

\* one call of runScan from main; after the first one main creates the ticker
Scan ==
    /\ pc = "scan"
    /\ \E fetched \in {fetchDexScreenerPairs(resp)} :
       \E sorted \in SortOutcomes(ScoredCandidates(fetched.pairs, now)) :
       \E r \in {runScan(wallet, holding, fetched, sorted, now)} :
          /\ wallet' = r.wallet
          /\ holding' = r.holding
          /\ tradeLog' = AppendAll(tradeLog, r.trades, sinkOK)
          /\ walletLog' = AppendAll(walletLog, r.walletLogs, sinkOK)
          /\ console' = r.console
    /\ pc' = "wait"
    /\ ticker' = IF ticker = "none" THEN "empty" ELSE ticker
    /\ UNCHANGED <<now, resp, sinkOK>>

\* main blocks on ticker.C; the next tick arrives and is received at once,
\* with a new API answer
Tick(responses, steps, limit, sinks) ==
    /\ pc = "wait"
    /\ \E dt \in steps :
          /\ now + dt <= StartTime + limit
          /\ now' = now + dt
    /\ resp' \in responses
    /\ sinkOK' \in sinks
    /\ pc' = "scan"
    /\ UNCHANGED <<wallet, holding, tradeLog, walletLog, console, ticker>>

ScanCycle == wallet.TradesMade < MaxTrades /\ Scan

TickMain == Tick(Responses, TickSteps, MaxElapsed, BOOLEAN)

TickDrain == Tick(DrainResponses, DrainTickSteps, MaxDrainElapsed, {TRUE})

Next == ScanCycle \/ TickMain

Spec == Init /\ [][Next]_vars

NextDrain == Scan \/ TickDrain

SpecDrain == InitDrain /\ [][NextDrain]_vars


(***************************************************************************)
(* Observations used to state the properties                               *)
(***************************************************************************)
\* a step of main that runs one scan cycle
ScanStep == pc = "scan" /\ pc' = "wait"

HasLine(c, msg) == \E i \in 1..Len(c) : c[i][1] = msg

\* the cycle just run executed a SELL / a BUY
Sold(c) == HasLine(c, "TRADE SELL")
Bought(c) == HasLine(c, "TRADE BUY")

\* the BUY / SELL lines of a cycle, in the order they were printed
TradeLines(c) ==
    LET IsTrade(l) == l[1] \in {"TRADE SELL", "TRADE BUY"}
        t == SelectSeq(c, IsTrade)
    IN  [i \in 1..Len(t) |-> t[i][1]]

SellReasonOf(c) == (CHOOSE l \in {c[i] : i \in 1..Len(c)} : l[1] = "SELL Signal")[2]

FetchOK == resp.kind \in {"ok", "empty", "nopairs"}

\* the pairs of this cycle's answer that pass the eligibility filters
Batch ==
    IF resp.kind = "ok"
    THEN SelectSeq(resp.pairs, LAMBDA p : p.ChainID = solanaChainID /\ Eligible(p, now))
    ELSE <<>>

\* the held pair is in the batch; HeldSnapshot is its (last) snapshot
HeldPresent == \E i \in 1..Len(Batch) : Batch[i].PairAddress = holding.PairAddress

HeldSnapshot ==
    Batch[CHOOSE i \in 1..Len(Batch) :
             /\ Batch[i].PairAddress = holding.PairAddress
             /\ \A j \in 1..Len(Batch) :
                   Batch[j].PairAddress = holding.PairAddress => j <= i]

HeldPrice == parseFloat(HeldSnapshot.PriceNative, <<-1, 1>>)

Pct(n) == R(n, 100)

\* amounts of a SELL of the held position at this cycle's price
Gross == RMul(holding.AmountToken, HeldPrice)
Net == RMul(Gross, <<997, 1000>>)
BuyDebit == <<1003, 1000>>

SamePosition(h1, h2) ==
    /\ h1.Active /\ h2.Active
    /\ h1.PairAddress = h2.PairAddress
    /\ h1.BaseTokenAddr = h2.BaseTokenAddr
    /\ h1.AmountToken = h2.AmountToken
    /\ h1.EntryPriceNative = h2.EntryPriceNative
    /\ h1.EntryTime = h2.EntryTime
    /\ h1.EntryLiquidityUSD = h2.EntryLiquidityUSD

(***************************************************************************)
(* C1: a SELL is executed only when a position is active, a BUY only when  *)
(* none is (none at the start of the cycle, or the one held was sold       *)
(* earlier in the cycle); a position that is held and not sold is never    *)
(* replaced by a BUY.                                                      *)
(***************************************************************************)
C1_TransitionsFromSourceState ==
    [][ScanStep =>
         /\ Sold(console') => holding.Active
         /\ Bought(console') => (~holding.Active \/ Sold(console'))
         /\ (holding.Active /\ ~Sold(console')) =>
               (SamePosition(holding, holding') /\ ~Bought(console'))]_vars

\* a held position met a cycle whose top candidate (another pair) qualifies for entry
C1_Witness ==
    /\ pc = "wait"
    /\ holding.Active /\ holding.PairAddress = "pairA"
    /\ resp = [kind |-> "ok", pairs |-> <<PairD, PairB>>]
    /\ RGe(wallet.SOLBalance, BuyDebit)

(***************************************************************************)
(* C2 as claimed: no single cycle executes both a SELL and a BUY.          *)
(***************************************************************************)
C2_Claimed_NoSellAndBuyInOneCycle ==
    [][ScanStep => ~(Sold(console') /\ Bought(console'))]_vars

(***************************************************************************)
(* C2 amended: a cycle executes at most one SELL and at most one BUY; with *)
(* no position at the start it applies only the entry rule; with a         *)
(* position at the start it applies the exit rule and, only if that sold   *)
(* the position, the entry rule after it (SELL then BUY in one cycle).     *)
(***************************************************************************)
C2_OneSellThenOneBuy ==
    [][ScanStep =>
         /\ TradeLines(console') \in
               {<<>>, <<"TRADE SELL">>, <<"TRADE BUY">>, <<"TRADE SELL", "TRADE BUY">>}
         /\ ~holding.Active => ~Sold(console')
         /\ (holding.Active /\ Bought(console')) => Sold(console')]_vars

\* a cycle that sold the held position and bought again
C2_Witness ==
    /\ pc = "wait"
    /\ TradeLines(console) = <<"TRADE SELL", "TRADE BUY">>
    /\ holding.Active

(***************************************************************************)
(* C3: the SELL reason is that of the highest-priority trigger that holds: *)
(* liquidity drop, then trailing stop, then take profit, then momentum     *)
(* fade (conditions evaluated on the peak as updated in this cycle).       *)
(***************************************************************************)
LiquidityDropHolds ==
    RLt(HeldSnapshot.Liquidity.Usd, RMul(holding.EntryLiquidityUSD, Pct(70)))

TrailingStopHolds ==
    RLe(HeldPrice, RMul(RMax(holding.PeakPriceNative, HeldPrice), Pct(97)))

TakeProfitHolds == RGe(HeldPrice, RMul(holding.EntryPriceNative, Pct(105)))

MomentumFadeHolds ==
    /\ RLt(HeldSnapshot.PriceChange.M5, <<1, 1000>>)
    /\ now - holding.EntryTime > 300

C3_ExitPriority ==
    [][(ScanStep /\ Sold(console')) =>
         /\ LiquidityDropHolds => SellReasonOf(console') = "Liquidity Drop"
         /\ (~LiquidityDropHolds /\ TrailingStopHolds) =>
               SellReasonOf(console') = "Trailing Stop Loss"
         /\ (~LiquidityDropHolds /\ ~TrailingStopHolds /\ TakeProfitHolds) =>
               SellReasonOf(console') = "Take Profit"
         /\ (~LiquidityDropHolds /\ ~TrailingStopHolds /\ ~TakeProfitHolds) =>
               SellReasonOf(console') = "Momentum Fade"]_vars

\* a SELL recorded as liquidity drop at a price that also met take profit
C3_Witness ==
    \E i \in 1..Len(tradeLog) :
       /\ tradeLog[i].Action = "SELL"
       /\ tradeLog[i].Reason = "Liquidity Drop"
       /\ RGe(tradeLog[i].SOLAmount, RMul(tradeSizeSOL, Pct(105)))

(***************************************************************************)
(* C4: a BUY debits the balance by exactly T*(1+f) = 1.003 and a SELL      *)
(* credits it by exactly G*(1-f); the first BUY leaves 10.0 - 1.003 =      *)
(* 8.997.                                                                  *)
(***************************************************************************)
C4_WalletDeltas ==
    [][ScanStep =>
         /\ wallet'.SOLBalance =
               RSub(RAdd(wallet.SOLBalance, IF Sold(console') THEN Net ELSE Zero),
                    IF Bought(console') THEN BuyDebit ELSE Zero)
         /\ (wallet.SOLBalance = <<10, 1>> /\ Bought(console') /\ ~Sold(console')) =>
               wallet'.SOLBalance = <<8997, 1000>>]_vars

\* right after the first BUY
C4_Witness ==
    /\ pc = "wait" /\ Bought(console) /\ ~Sold(console)
    /\ wallet.TradesMade = 0
    /\ wallet.SOLBalance = <<8997, 1000>>

(***************************************************************************)
(* C5: the trailing stop is measured from the peak price, not from the     *)
(* entry price: whenever the held pair's price is <= peak * 0.97 the       *)
(* position is sold in that cycle, and a trailing-stop SELL happens only   *)
(* at such a price; for a peak of 1.2 the stop price is 1.164.             *)
(***************************************************************************)
C5_TrailingStopFromPeak ==
    /\ trailingStopPrice([ZeroHolding EXCEPT !.Active = TRUE,
                                             !.EntryPriceNative = One,
                                             !.PeakPriceNative = R(12, 10)])
          = R(1164, 1000)
    /\ [][(ScanStep /\ holding.Active /\ HeldPresent) =>
            /\ TrailingStopHolds => Sold(console')
            /\ (Sold(console') /\ SellReasonOf(console') = "Trailing Stop Loss") =>
                  TrailingStopHolds]_vars

\* a trailing-stop SELL at a price above entry price * 0.97
C5_Witness ==
    \E i \in 1..Len(tradeLog) :
       /\ tradeLog[i].Action = "SELL"
       /\ tradeLog[i].Reason = "Trailing Stop Loss"
       /\ RGt(tradeLog[i].SOLAmount, RMul(tradeSizeSOL, Pct(97)))

(***************************************************************************)
(* C6: in a cycle where a position is held and its pair is not in the      *)
(* batch, the position (peak included), the wallet and both logs are       *)
(* unchanged and no SELL is executed.                                      *)
(***************************************************************************)
C6_AbsentPairRetained ==
    [][(ScanStep /\ FetchOK /\ holding.Active /\ ~HeldPresent) =>
         /\ holding' = holding
         /\ wallet' = wallet
         /\ ~Sold(console')
         /\ tradeLog' = tradeLog
         /\ walletLog' = walletLog]_vars

\* pair A is held after a cycle whose batch had only pair B
C6_Witness ==
    /\ pc = "wait"
    /\ holding.Active /\ holding.PairAddress = "pairA"
    /\ resp = [kind |-> "ok", pairs |-> <<PairB>>]
    /\ HasLine(console, "PAIR DATA NOT FOUND")

(***************************************************************************)
(* C7: a cycle whose fetch fails changes neither wallet nor position,      *)
(* writes no trade or wallet log record, and returns main to the ticker.   *)
(***************************************************************************)
C7_FetchFailureSkipsCycle ==
    [][(ScanStep /\ resp.kind \in ErrorKinds) =>
         /\ wallet' = wallet
         /\ holding' = holding
         /\ tradeLog' = tradeLog
         /\ walletLog' = walletLog
         /\ ~Sold(console') /\ ~Bought(console')
         /\ pc' = "wait"]_vars

\* a failed cycle was skipped while nothing was held and the answer carried a strong pair
C7_Witness ==
    /\ pc = "wait"
    /\ resp.kind = "status"
    /\ HasLine(console, "Skipping cycle")
    /\ ~holding.Active
    /\ RGe(wallet.SOLBalance, BuyDebit)

(***************************************************************************)
(* C8: when entry is evaluated (fetch succeeded and no position is active  *)
(* after the exit step), a BUY is executed iff the candidate list is       *)
(* non-empty, the top Score is >= 0.65 and the balance is >= 1.003; a      *)
(* cycle that neither buys nor sells leaves wallet and position unchanged. *)
(***************************************************************************)
ScoredBatch == ScoredCandidates(fetchDexScreenerPairs(resp).pairs, now)

TopScoreQualifies ==
    /\ Len(ScoredBatch) > 0
    /\ \E i \in 1..Len(ScoredBatch) : RGe(ScoredBatch[i].Score, Pct(65))

C8_EntryPreconditions ==
    [][(ScanStep /\ FetchOK /\ (~holding.Active \/ Sold(console'))) =>
         LET balanceAtEntry == IF Sold(console') THEN RAdd(wallet.SOLBalance, Net)
                               ELSE wallet.SOLBalance
         IN  /\ Bought(console') <=>
                   (TopScoreQualifies /\ RGe(balanceAtEntry, BuyDebit))
             /\ (~Bought(console') /\ ~Sold(console')) =>
                   (wallet' = wallet /\ holding' = holding)]_vars

\* a qualifying candidate was refused with a balance in [1.0, 1.003)
C8_Witness ==
    /\ pc = "wait"
    /\ HasLine(console, "Insufficient SOL")
    /\ ~holding.Active
    /\ RGe(wallet.SOLBalance, tradeSizeSOL)
    /\ RLt(wallet.SOLBalance, BuyDebit)

(***************************************************************************)
(* C9: a SELL has gross = amount * price, fee = gross * 0.003, net =       *)
(* gross - fee, P&L = net - 1.0; it credits the wallet by net, adds the    *)
(* fee to the fees paid, adds 1 to trades-made and 1 to profitable-trades  *)
(* iff P&L > 0, and clears the sold position (a BUY of the same cycle then *)
(* opens a new one).                                                       *)
(***************************************************************************)
C9_SellAccounting ==
    [][(ScanStep /\ Sold(console')) =>
         LET fee == RMul(Gross, <<3, 1000>>)
             net == RSub(Gross, fee)
             pnl == RSub(net, <<1, 1>>)
             rebuy == Bought(console')
         IN  /\ wallet'.SOLBalance =
                   RSub(RAdd(wallet.SOLBalance, net), IF rebuy THEN BuyDebit ELSE Zero)
             /\ wallet'.TotalFeesPaid =
                   RAdd(RAdd(wallet.TotalFeesPaid, fee), IF rebuy THEN <<3, 1000>> ELSE Zero)
             /\ wallet'.TradesMade = wallet.TradesMade + 1
             /\ wallet'.ProfitableTrades =
                   wallet.ProfitableTrades + (IF RGt(pnl, Zero) THEN 1 ELSE 0)
             /\ IF rebuy THEN holding'.Active /\ holding'.EntryTime = now
                         ELSE ~holding'.Active
             /\ sinkOK =>
                   LET e == tradeLog'[Len(tradeLog) + 1]
                   IN  /\ e.Action = "SELL"
                       /\ e.SOLAmount = Gross
                       /\ e.FeeSOL = fee
                       /\ e.ProfitLossSOL = pnl]_vars

\* one profitable and one losing SELL, the last one leaving no position
C9_Witness ==
    /\ pc = "wait"
    /\ Sold(console) /\ ~Bought(console)
    /\ ~holding.Active
    /\ wallet.TradesMade = 2
    /\ wallet.ProfitableTrades = 1

MaxScoreElapsed == 30

ScoreProfiles ==
    { <<10, 0, 1000, 5, 5, 5000>>,
      <<-2, 0, 1000, 5, 5, 8000>>,
      <<5, 0, 1000, 5, 5, 3000>>,
      <<5, 20, 2000, 9, 1, 8000>>,
      <<-2, -5, 500, 0, 0, 2000>>,
      <<10, 0, 1000, 5, 5, 8000>> }

ScorePair(addr, sym, prof) ==
    MkPair("solana", addr, sym, "SOL", P100, <<prof[6], 1>>, <<prof[3], 1>>,
           <<prof[1], 1>>, <<prof[2], 1>>, prof[4], prof[5], OldMs)

ScoreFeeds ==
    { <<ScorePair("pairA", "AAA", a), ScorePair("pairB", "BBB", b)>> :
         a \in ScoreProfiles, b \in ScoreProfiles }
    \cup
    { <<ScorePair("pairA", "AAA", a), ScorePair("pairB", "BBB", b),
        ScorePair("pairC", "CCC", c)>> :
         a \in ScoreProfiles, b \in ScoreProfiles, c \in ScoreProfiles }

ScoreResponses == {[kind |-> "ok", pairs |-> f] : f \in ScoreFeeds}

InitScore == initPaperTrading /\ sinkOK /\ resp \in ScoreResponses

TickScore == Tick(ScoreResponses, {refreshInterval}, MaxScoreElapsed, {TRUE})

NextScore == Scan \/ TickScore

SpecScore == InitScore /\ [][NextScore]_vars

\* the five components: raw metric and its normalized value
Components ==
    { <<"PriceChangeM5", "NormM5Change">>,
      <<"PriceChangeH1", "NormH1Change">>,
      <<"VolumeM5", "NormM5Volume">>,
      <<"M5BuySellRatio", "NormM5BuySellRatio">>,
      <<"LiquidityUSD", "NormLiquidity">> }

InUnitRange(v) == RGe(v, Zero) /\ RLe(v, One)

\* candidate i holds the batch maximum / minimum of the raw metric
HoldsMax(s, i, raw) == \A j \in 1..Len(s) : RLe(s[j][raw], s[i][raw])
HoldsMin(s, i, raw) == \A j \in 1..Len(s) : RLe(s[i][raw], s[j][raw])

\* the raw metric takes at least two values in the batch
HasSpread(s, raw) == \E i, j \in 1..Len(s) : s[i][raw] # s[j][raw]

(***************************************************************************)
(* C12 as claimed: in a batch of at least two candidates every normalized  *)
(* component is in [0,1], the holder of the batch maximum of a raw metric  *)
(* normalizes to exactly 1 and the holder of the minimum to exactly 0.     *)
(***************************************************************************)
C12_Claimed_MaxIsOneMinIsZero ==
    \A s \in {ScoredBatch} : Len(s) >= 2 =>
       \A comp \in Components : \A i \in 1..Len(s) :
          /\ InUnitRange(s[i][comp[2]])
          /\ HoldsMax(s, i, comp[1]) => s[i][comp[2]] = One
          /\ HoldsMin(s, i, comp[1]) => s[i][comp[2]] = Zero

(***************************************************************************)
(* C12 amended: in a batch of at least two candidates every normalized     *)
(* component is in [0,1]; for a component whose raw metric differs between *)
(* candidates the holder of the maximum normalizes to exactly 1 and the    *)
(* holder of the minimum to exactly 0; for a component whose raw metric is *)
(* the same for all candidates every candidate normalizes to 0.            *)
(***************************************************************************)
C12_NormalizedRange ==
    \A s \in {ScoredBatch} : Len(s) >= 2 =>
       \A comp \in Components : \A i \in 1..Len(s) :
          /\ InUnitRange(s[i][comp[2]])
          /\ HasSpread(s, comp[1]) =>
                /\ HoldsMax(s, i, comp[1]) => s[i][comp[2]] = One
                /\ HoldsMin(s, i, comp[1]) => s[i][comp[2]] = Zero
          /\ ~HasSpread(s, comp[1]) => s[i][comp[2]] = Zero

\* the cycle has scored the batch with 5m changes 10, -2, 5 and equal 1h changes
C12_Witness ==
    /\ pc = "wait"
    /\ \E s \in {ScoredBatch} :
          /\ Len(s) = 3
          /\ s[1].PriceChangeM5 = <<10, 1>> /\ s[1].NormM5Change = One
          /\ s[2].PriceChangeM5 = <<-2, 1>> /\ s[2].NormM5Change = Zero
          /\ s[3].PriceChangeM5 = <<5, 1>> /\ s[3].NormM5Change = <<7, 12>>
          /\ s[1].NormH1Change = Zero

(***************************************************************************)
(* C13 as claimed: the candidate bought is the top of the ranking by Score *)
(* descending with ties broken by input order, i.e. the first candidate of *)
(* the batch that no other candidate outscores.                            *)
(***************************************************************************)
\* index, in input order, of the first candidate with the highest Score
StableTopIndex(s) ==
    CHOOSE i \in 1..Len(s) :
       /\ \A j \in 1..Len(s) : RLe(s[j].Score, s[i].Score)
       /\ \A j \in 1..(i - 1) : RLt(s[j].Score, s[i].Score)

NormFields == {comp[2] : comp \in Components}

\* values a normalized component is replaced by
NormGrid == {Zero, R(1, 3), R(1, 2), R(7, 12), One}

C15_DegenerateBatchNoBuy ==
    [][(ScanStep /\ FetchOK /\ Len(Batch) < 2) =>
         /\ \A i \in 1..Len(ScoredBatch) : ScoredBatch[i].Score = Zero
         /\ ~Bought(console')
         /\ ~holding.Active => (wallet' = wallet /\ holding' = holding)]_vars

\* the strong pair came alone while nothing was held and the wallet could pay
C15_Witness ==
    /\ pc = "wait"
    /\ resp = [kind |-> "ok", pairs |-> <<PairA(P105, 3000, 10)>>]
    /\ HasLine(console, "No BUY")
    /\ ~holding.Active
    /\ RGe(wallet.SOLBalance, BuyDebit)

(***************************************************************************)
(* Price feeds: pair A, strong in every metric, arrives with a price       *)
(* string that is well-formed, NaN, unparsable, negative, zero or missing, *)
(* or arrives without its pair and base-token identifiers; pair B is       *)
(* well-formed.                                                            *)
(***************************************************************************)
MaxPriceElapsed == 60

PNaN == <<"N", "a", "N">>
PMinus1 == <<"-", "1", ".", "0">>
PNought == <<"0">>
PAbsent == <<>>
PJunk == <<"a", "b", "c">>

\* pair A as decoded from a JSON object without pairAddress and baseToken
PairNoIds ==
    [PairA(P100, 3000, 10) EXCEPT !.PairAddress = "",
                                  !.BaseToken = [Address |-> "", Symbol |-> ""]]

PriceFeeds ==
    { <<PairA(P100, 3000, 10), PairB>>,
      <<PairA(P105, 3000, 10), PairB>>,
      <<PairA(PNaN, 3000, 10), PairB>>,
      <<PairA(PJunk, 3000, 10), PairB>>,
      <<PairA(PMinus1, 3000, 10), PairB>>,
      <<PairA(PNought, 3000, 10), PairB>>,
      <<PairA(PAbsent, 3000, 10), PairB>>,
      <<PairNoIds, PairB>> }

PriceResponses == {[kind |-> "ok", pairs |-> f] : f \in PriceFeeds}

InitPrice == initPaperTrading /\ sinkOK /\ resp \in PriceResponses

TickPrice == Tick(PriceResponses, {refreshInterval}, MaxPriceElapsed, {TRUE})

NextPrice == Scan \/ TickPrice

SpecPrice == InitPrice /\ [][NextPrice]_vars

(***************************************************************************)
(* C16 as claimed: every snapshot admitted into scoring has a native price *)
(* > 0, and so has the entry price of every position opened.               *)
(***************************************************************************)
C16_Claimed_AdmittedPricePositive ==
    [][(ScanStep /\ FetchOK) =>
         /\ \A i \in 1..Len(ScoredBatch) : RGt(ScoredBatch[i].PriceNative, Zero)
         /\ Bought(console') => RGt(holding'.EntryPriceNative, Zero)]_vars

(***************************************************************************)
(* C17 as claimed: a malformed snapshot (missing or unparsable price,      *)
(* missing token identifiers) never becomes a scoring candidate and is     *)
(* never bought, while the well-formed snapshots of the cycle are scored.  *)
(***************************************************************************)
Malformed(p) ==
    \/ ~ParseDecimal(p.PriceNative).ok
    \/ p.PairAddress = ""
    \/ p.BaseToken.Address = "" \/ p.BaseToken.Symbol = ""
    \/ p.QuoteToken.Address = "" \/ p.QuoteToken.Symbol = ""

\* a scoring candidate was made from the snapshot p
Admitted(p) ==
    \E i \in 1..Len(ScoredBatch) :
       /\ ScoredBatch[i].PairAddress = p.PairAddress
       /\ ScoredBatch[i].BaseTokenAddr = p.BaseToken.Address

C17_Claimed_MalformedDropped ==
    [][(ScanStep /\ FetchOK) =>
         \A k \in 1..Len(resp.pairs) :
            /\ Malformed(resp.pairs[k]) =>
                  /\ ~Admitted(resp.pairs[k])
                  /\ ~(Bought(console') /\ holding'.PairAddress = resp.pairs[k].PairAddress)
            /\ (~Malformed(resp.pairs[k]) /\ Eligible(resp.pairs[k], now)) =>
                  Admitted(resp.pairs[k])]_vars

(***************************************************************************)
(* C18: a BUY or SELL whose log records cannot be written is not rolled    *)
(* back: the cycle leaves the wallet and the position of the executed      *)
(* trade (and nothing in the log files), and later cycles go on from that  *)
(* state.                                                                  *)
(***************************************************************************)
C18_LogFailureKeepsTrade ==
    [][(ScanStep /\ ~sinkOK) =>
         /\ tradeLog' = tradeLog /\ walletLog' = walletLog
         /\ (Bought(console') /\ ~Sold(console')) =>
               /\ wallet'.SOLBalance = RSub(wallet.SOLBalance, BuyDebit)
               /\ holding'.Active /\ holding'.EntryTime = now
         /\ (Sold(console') /\ ~Bought(console')) =>
               /\ wallet'.SOLBalance = RAdd(wallet.SOLBalance, Net)
               /\ wallet'.TradesMade = wallet.TradesMade + 1
               /\ ~holding'.Active
         /\ (Sold(console') /\ Bought(console')) =>
               /\ wallet'.SOLBalance = RSub(RAdd(wallet.SOLBalance, Net), BuyDebit)
               /\ wallet'.TradesMade = wallet.TradesMade + 1
               /\ holding'.Active /\ holding'.EntryTime = now]_vars

\* a position whose BUY never reached the trade log was sold in a later cycle
C18_Witness ==
    /\ pc = "wait"
    /\ wallet.TradesMade >= 1
    /\ Sold(console)
    /\ \A i \in 1..Len(tradeLog) : tradeLog[i].Action # "BUY"

(***************************************************************************)
(* C19 as claimed (for cycles whose log writes succeed): every executed    *)
(* BUY or SELL adds one trade log record and one wallet log record; cycles *)
(* without a BUY or SELL add neither.                                      *)
(***************************************************************************)
\* records a cycle has added to a log file
Added(file, fileAfter) == SubSeq(fileAfter, Len(file) + 1, Len(fileAfter))

C19_Claimed_WalletRecordPerTrade ==
    [][(ScanStep /\ sinkOK) =>
         /\ Len(Added(tradeLog, tradeLog')) = Len(TradeLines(console'))
         /\ Len(Added(walletLog, walletLog')) = Len(TradeLines(console'))]_vars

(***************************************************************************)
(* C19 amended: in a cycle whose log writes succeed every executed BUY or  *)
(* SELL adds exactly one trade log record, in the order executed, and a    *)
(* cycle that executed at least one of them adds exactly one wallet log    *)
(* record, showing the wallet and holding at the end of the cycle (after   *)
(* the BUY when a SELL and a BUY were executed); a cycle without a BUY or  *)
(* SELL adds neither; records already in a log are never changed; a        *)
(* cycle whose writes fail adds nothing.                                   *)
(***************************************************************************)
C19_LogRecordsPerCycle ==
    [][ScanStep =>
         /\ SubSeq(tradeLog', 1, Len(tradeLog)) = tradeLog
         /\ SubSeq(walletLog', 1, Len(walletLog)) = walletLog
         /\ ~sinkOK => (tradeLog' = tradeLog /\ walletLog' = walletLog)
         /\ sinkOK =>
               /\ [i \in 1..Len(Added(tradeLog, tradeLog')) |->
                      "TRADE " \o Added(tradeLog, tradeLog')[i].Action]
                     = TradeLines(console')
               /\ TradeLines(console') = <<>> => walletLog' = walletLog
               /\ TradeLines(console') # <<>> =>
                     Added(walletLog, walletLog') =
                        <<[Timestamp |-> now, SOLBalance |-> wallet'.SOLBalance,
                           Holding |-> holding', TradesMade |-> wallet'.TradesMade,
                           FeesPaid |-> wallet'.TotalFeesPaid]>>]_vars

\* a SELL and a BUY of one cycle are the last two trade records, and the
\* last wallet record shows the position the BUY opened
C19_Witness ==
    /\ pc = "wait" /\ sinkOK
    /\ TradeLines(console) = <<"TRADE SELL", "TRADE BUY">>
    /\ Len(tradeLog) >= 2
    /\ tradeLog[Len(tradeLog) - 1].Action = "SELL"
    /\ tradeLog[Len(tradeLog)].Action = "BUY"
    /\ tradeLog[Len(tradeLog) - 1].Timestamp = now
    /\ Len(walletLog) >= 1
    /\ walletLog[Len(walletLog)].Holding = holding
    /\ holding.Active

(***************************************************************************)
(* The ticker as a process of its own: the runtime timer sends a tick on   *)
(* ticker.C every refreshInterval, whatever main is doing; the channel     *)
(* holds one tick and a tick sent while it is full is dropped; main        *)
(* receives a tick only when it is back in the for-range loop.             *)
(***************************************************************************)
MaxTickerElapsed == 90

TimerFire ==
    /\ ticker # "none"
    /\ now + refreshInterval <= StartTime + MaxTickerElapsed
    /\ now' = now + refreshInterval
    /\ ticker' = "full"
    /\ UNCHANGED <<wallet, holding, tradeLog, walletLog, console, pc, resp, sinkOK>>

Receive_WhileScanning ==
    /\ ticker = "full"
    /\ ticker' = "empty"
    /\ resp' \in DrainResponses
    /\ sinkOK' \in BOOLEAN
    /\ pc' = "scan"
    /\ UNCHANGED <<wallet, holding, tradeLog, walletLog, console, now>>

\* for range ticker.C: main takes the buffered tick and calls runScan
Receive ==
    /\ pc = "wait"
    /\ ticker = "full"
    /\ ticker' = "empty"
    /\ resp' \in DrainResponses
    /\ sinkOK' \in BOOLEAN
    /\ pc' = "scan"
    /\ UNCHANGED <<wallet, holding, tradeLog, walletLog, console, now>>

InitTicker == initPaperTrading /\ resp \in DrainResponses

NextTicker == Scan \/ TimerFire \/ Receive

SpecTicker == InitTicker /\ [][NextTicker]_vars

(***************************************************************************)
(* C20: cycles are strictly serialized.  A cycle begins only when main is  *)
(* waiting on the ticker; while a cycle is in progress a tick that arrives *)
(* starts no other cycle and changes neither the cycle's inputs nor the    *)
(* wallet, position or logs; wallet, position and logs change only in the  *)
(* step that completes a cycle.                                            *)
(***************************************************************************)
C20_CyclesSerialized ==
    [][/\ (pc = "scan" /\ ~ScanStep) =>
             /\ pc' = "scan" /\ resp' = resp /\ sinkOK' = sinkOK
             /\ <<wallet, holding, tradeLog, walletLog, console>>' =
                   <<wallet, holding, tradeLog, walletLog, console>>
       /\ (<<wallet, holding, tradeLog, walletLog>>' #
              <<wallet, holding, tradeLog, walletLog>>) => ScanStep
       /\ (resp' # resp \/ sinkOK' # sinkOK) => (pc = "wait" /\ pc' = "scan")]_vars

\* a tick is waiting in ticker.C while a cycle over a held position is in progress
C20_Witness ==
    /\ pc = "scan"
    /\ ticker = "full"
    /\ holding.Active

(***************************************************************************)
(* C21: the Score of every candidate is the weighted sum of its five       *)
(* normalized components with the weights 0.30, 0.15, 0.20, 0.25, 0.10;    *)
(* the weights sum to 1.0 and every Score lies in [0,1].                   *)
(***************************************************************************)
\* 0.30*m5 + 0.15*h1 + 0.20*vol + 0.25*ratio + 0.10*liq
SumOfParts(c) ==
    RAdd(RMul(Pct(30), c.NormM5Change),
         RAdd(RMul(Pct(15), c.NormH1Change),
              RAdd(RMul(Pct(20), c.NormM5Volume),
                   RAdd(RMul(Pct(25), c.NormM5BuySellRatio),
                        RMul(Pct(10), c.NormLiquidity)))))

C21_ScoreIsWeightedSum ==
    /\ <<wM5Change, wH1Change, wM5Volume, wM5BuySellRatio, wLiquidity>> =
          <<Pct(30), Pct(15), Pct(20), Pct(25), Pct(10)>>
    /\ RAdd(RAdd(RAdd(RAdd(wM5Change, wH1Change), wM5Volume), wM5BuySellRatio),
            wLiquidity) = One
    /\ \A s \in {ScoredBatch} : \A i \in 1..Len(s) :
          /\ s[i].Score = SumOfParts(s[i])
          /\ InUnitRange(s[i].Score)

\* a scored batch whose Scores reach both ends of [0,1] and a value between
C21_Witness ==
    /\ pc = "wait"
    /\ \E s \in {ScoredBatch} : \E i, j, k \in 1..Len(s) :
          /\ s[i].Score = One
          /\ s[j].Score = Zero
          /\ RGt(s[k].Score, Zero) /\ RLt(s[k].Score, One)

(***************************************************************************)
(* C22: in a cycle where a position is held and its pair is in the batch, *)
(* a SELL is executed iff at least one of the four triggers holds, each    *)
(* evaluated after the peak update: liquidity < entry liquidity * 0.70,    *)
(* price <= peak * 0.97, price >= entry price * 1.05, or momentum fade;    *)
(* otherwise the position stays held.                                      *)
(***************************************************************************)
C22_SellIffTrigger ==
    [][(ScanStep /\ FetchOK /\ holding.Active /\ HeldPresent) =>
         /\ Sold(console') <=>
               \/ LiquidityDropHolds
               \/ TrailingStopHolds
               \/ TakeProfitHolds
               \/ MomentumFadeHolds
         /\ ~Sold(console') => SamePosition(holding, holding')]_vars

\* a take-profit SELL at exactly entry price * 1.05
C22_Witness ==
    /\ pc = "wait"
    /\ Sold(console)
    /\ \E i \in 1..Len(tradeLog) :
          /\ tradeLog[i].Action = "SELL"
          /\ tradeLog[i].Reason = "Take Profit"
          /\ tradeLog[i].SOLAmount = RMul(tradeSizeSOL, takeProfitThreshold)

(***************************************************************************)
(* C23: a SELL with reason momentum fade happens only when the 5-minute    *)
(* price change is below 0.001 and the position has been held for more     *)
(* than 5 minutes; within the first 5 minutes no SELL has that reason,     *)
(* whatever the 5-minute change is.                                        *)
(***************************************************************************)
C23_MomentumFadeNeedsDwell ==
    [][(ScanStep /\ Sold(console') /\ SellReasonOf(console') = "Momentum Fade") =>
         /\ RLt(HeldSnapshot.PriceChange.M5, <<1, 1000>>)
         /\ now - holding.EntryTime > 5 * 60]_vars

\* a momentum-fade SELL recorded more than 5 minutes after the BUY
C23_Witness ==
    /\ pc = "wait"
    /\ Sold(console) /\ SellReasonOf(console) = "Momentum Fade"
    /\ \E i \in 1..Len(tradeLog) - 1 :
          /\ tradeLog[i].Action = "BUY"
          /\ tradeLog[i + 1].Action = "SELL"
          /\ tradeLog[i + 1].Reason = "Momentum Fade"
          /\ tradeLog[i + 1].Timestamp - tradeLog[i].Timestamp > 5 * 60

\* a position held for exactly 5 minutes met a 5-minute change of 0 and was kept
C23_HeldAtDwell ==
    /\ pc = "wait"
    /\ holding.Active /\ HasLine(console, "HOLDING")
    /\ now - holding.EntryTime = 5 * 60
    /\ resp.kind = "ok" /\ HeldPresent
    /\ HeldSnapshot.PriceChange.M5 = Zero

(***************************************************************************)
(* C24: every BUY opens the position on a top-ranked candidate of the      *)
(* cycle: pair and token identifiers are that snapshot's, entry price its  *)
(* native price, token amount = 1.0 / entry price (the fee is not taken    *)
(* from the token amount), entry liquidity its USD liquidity, peak price   *)
(* = entry price, entry time = now.                                        *)
(***************************************************************************)
\* snapshot i of the batch is outscored by no other
TopRanked(i) ==
    \A s \in {ScoredBatch} : \A j \in 1..Len(s) : RLe(s[j].Score, s[i].Score)

OpenedFrom(h, p, t) ==
    /\ h.Active
    /\ h.PairAddress = p.PairAddress
    /\ h.BaseTokenSymbol = p.BaseToken.Symbol
    /\ h.BaseTokenAddr = p.BaseToken.Address
    /\ h.QuoteTokenSymbol = p.QuoteToken.Symbol
    /\ h.QuoteTokenAddr = p.QuoteToken.Address
    /\ h.EntryPriceNative = parseFloat(p.PriceNative, <<-1, 1>>)
    /\ h.AmountToken = RDiv(<<1, 1>>, parseFloat(p.PriceNative, <<-1, 1>>))
    /\ RMul(h.AmountToken, h.EntryPriceNative) = <<1, 1>>
    /\ h.EntryLiquidityUSD = p.Liquidity.Usd
    /\ h.PeakPriceNative = h.EntryPriceNative
    /\ h.EntryTime = t

C24_BuyInitializesPosition ==
    [][(ScanStep /\ Bought(console')) =>
          \E i \in 1..Len(Batch) :
             TopRanked(i) /\ OpenedFrom(holding', Batch[i], now)]_vars

\* right after a BUY of pair A at 1.04: 25/26 token, peak 1.04, entry liquidity 3000
C24_Witness ==
    /\ pc = "wait"
    /\ Bought(console)
    /\ holding.Active /\ holding.PairAddress = "pairA"
    /\ holding.EntryPriceNative = R(104, 100)
    /\ holding.AmountToken = R(100, 104)
    /\ holding.PeakPriceNative = R(104, 100)
    /\ holding.EntryLiquidityUSD = <<3000, 1>>
    /\ holding.EntryTime = now

(***************************************************************************)
(* C25 as claimed: in every cycle with a position held before and after    *)
(* it, only the peak price of the position may change (identifiers, token  *)
(* amount, entry price, entry time and entry liquidity are unchanged) and  *)
(* the wallet is unchanged.                                                *)
(***************************************************************************)
OnlyPeakMayDiffer(h1, h2) == h2 = [h1 EXCEPT !.PeakPriceNative = h2.PeakPriceNative]

C25_Claimed_HeldBeforeAndAfter ==
    [][(ScanStep /\ holding.Active /\ holding'.Active) =>
         /\ OnlyPeakMayDiffer(holding, holding')
         /\ wallet' = wallet]_vars

(***************************************************************************)
(* C25 amended: in every cycle where a position is held and not sold, only *)
(* its peak price may change and the wallet is unchanged; a position held  *)
(* after a cycle that sold the one held before was opened in that cycle.   *)
(***************************************************************************)
C25_FrameWhileHeld ==
    [][(ScanStep /\ holding.Active) =>
         /\ ~Sold(console') =>
               /\ OnlyPeakMayDiffer(holding, holding')
               /\ wallet' = wallet
         /\ (Sold(console') /\ holding'.Active) =>
               /\ Bought(console')
               /\ holding'.EntryTime = now
               /\ wallet'.TradesMade = wallet.TradesMade + 1]_vars

\* a cycle kept the position and raised its peak to the current price
C25_Witness ==
    /\ pc = "wait"
    /\ holding.Active /\ HasLine(console, "HOLDING")
    /\ resp.kind = "ok" /\ HeldPresent
    /\ HeldPrice = holding.PeakPriceNative
    /\ RGt(holding.PeakPriceNative, holding.EntryPriceNative)
    /\ holding.EntryTime < now

(***************************************************************************)
(* C26: normalize(value, min, max) is (value - min) / (max - min) when max *)
(* differs from min and 0 when max equals min; so in a batch where every   *)
(* candidate has the same raw value for a dimension every candidate's      *)
(* normalized value for that dimension is 0.                               *)
(***************************************************************************)
\* raw values normalize is applied to, as min <= value <= max
RawGrid == {<<-5, 1>>, <<-2, 1>>, Zero, <<1, 2>>, <<5, 1>>, <<10, 1>>, <<8000, 1>>}

C26_NormalizeDegenerateIsZero ==
    /\ \A lo \in RawGrid : \A hi \in RawGrid : \A v \in RawGrid :
          (RLe(lo, v) /\ RLe(v, hi)) =>
             normalize(v, lo, hi) =
                IF hi = lo THEN Zero
                ELSE RDiv(RSub(v, lo), RSub(hi, lo))
    /\ \A s \in {ScoredBatch} : Len(s) >= 2 =>
          \A comp \in Components : \A i \in 1..Len(s) :
             \E lo, hi \in 1..Len(s) :
                /\ HoldsMin(s, lo, comp[1]) /\ HoldsMax(s, hi, comp[1])
                /\ s[i][comp[2]] =
                      IF s[hi][comp[1]] = s[lo][comp[1]] THEN Zero
                      ELSE RDiv(RSub(s[i][comp[1]], s[lo][comp[1]]),
                                RSub(s[hi][comp[1]], s[lo][comp[1]]))
             /\ ~HasSpread(s, comp[1]) => s[i][comp[2]] = Zero

\* a scored batch of three with one 5m volume (all normalize to 0) and liquidity
\* 5000, 8000, 3000 (the first normalizes to 2/5)
C26_Witness ==
    /\ pc = "wait"
    /\ \E s \in {ScoredBatch} :
          /\ Len(s) = 3
          /\ \A i \in 1..3 : s[i].VolumeM5 = <<1000, 1>> /\ s[i].NormM5Volume = Zero
          /\ s[1].LiquidityUSD = <<5000, 1>> /\ s[1].NormLiquidity = <<2, 5>>
          /\ s[2].LiquidityUSD = <<8000, 1>> /\ s[2].NormLiquidity = One
          /\ s[3].LiquidityUSD = <<3000, 1>> /\ s[3].NormLiquidity = Zero

(***************************************************************************)
(* Filter feeds: pair A, strong in every metric, arrives eligible, or with *)
(* one attribute on the wrong side of a filter (liquidity 1999, 5m volume  *)
(* 499, created 30 s less than an hour before the first scan, quoted in    *)
(* USDC, on another chain, price 0 or NaN), or eligible with liquidity     *)
(* 2050; pair B sits on the filters' limits (liquidity 2000, volume 500).  *)
(***************************************************************************)
MaxFilterElapsed == 60

\* created one hour before the second scan
YoungMs == 1000 * (StartTime + refreshInterval - minPairAgeSeconds)

FilterPair(chain, quote, price, liq, vol, createdMs) ==
    MkPair(chain, "pairA", "AAA", quote, price, <<liq, 1>>, <<vol, 1>>,
           <<10, 1>>, <<10, 1>>, 9, 1, createdMs)

FilterFeeds ==
    { <<FilterPair("solana", "SOL", P100, 3000, 1000, OldMs), PairB>>,
      <<FilterPair("solana", "SOL", P100, 1999, 1000, OldMs), PairB>>,
      <<FilterPair("solana", "SOL", P105, 3000, 499, OldMs), PairB>>,
      <<FilterPair("solana", "SOL", P100, 3000, 1000, YoungMs), PairB>>,
      <<FilterPair("solana", "USDC", P100, 3000, 1000, OldMs), PairB>>,
      <<FilterPair("ethereum", "SOL", P100, 3000, 1000, OldMs), PairB>>,
      <<FilterPair("solana", "SOL", PNought, 3000, 1000, OldMs), PairB>>,
      <<FilterPair("solana", "SOL", PNaN, 3000, 1000, OldMs), PairB>>,
      <<FilterPair("solana", "SOL", P100, 2050, 1000, OldMs), PairB>> }

FilterResponses == {[kind |-> "ok", pairs |-> f] : f \in FilterFeeds}

InitFilter == initPaperTrading /\ sinkOK /\ resp \in FilterResponses

TickFilter == Tick(FilterResponses, {refreshInterval}, MaxFilterElapsed, {TRUE})

NextFilter == Scan \/ TickFilter

SpecFilter == InitFilter /\ [][NextFilter]_vars

(***************************************************************************)
(* C27 as claimed: every candidate that reaches scoring is quoted in SOL,  *)
(* has USD liquidity >= 2000, 5-minute volume >= 500, was created at least *)
(* one hour before now, and has a native price > 0.                        *)
(***************************************************************************)
PassedMarketFilters(c) ==
    /\ c.QuoteTokenSymbol = "SOL"
    /\ RGe(c.LiquidityUSD, <<2000, 1>>)
    /\ RGe(c.VolumeM5, <<500, 1>>)
    /\ now - c.PairCreatedAt >= 60 * 60

C27_Claimed_ScoredPassedFilters ==
    \A s \in {ScoredBatch} : \A i \in 1..Len(s) :
       /\ PassedMarketFilters(s[i])
       /\ RGt(s[i].PriceNative, Zero)

(***************************************************************************)
(* C27, what the filter does guarantee: every candidate that reaches       *)
(* scoring passed the quote, liquidity, volume and age filters, and its    *)
(* native price is > 0 or NaN.                                             *)
(***************************************************************************)
C27_ScoredPassedFiltersOrNaN ==
    \A s \in {ScoredBatch} : \A i \in 1..Len(s) :
       /\ PassedMarketFilters(s[i])
       /\ RGt(s[i].PriceNative, Zero) \/ IsNaN(s[i].PriceNative)

\* pair A, too young in the first scan, was scored and bought in the second
C27_YoungPairAdmittedLater ==
    /\ pc = "wait" /\ now = StartTime + refreshInterval
    /\ resp.pairs[1].PairCreatedAt = YoungMs
    /\ Len(ScoredBatch) = 2
    /\ Bought(console) /\ holding.PairAddress = "pairA"

(***************************************************************************)
(* Transaction-count feeds: pair A with every combination of 0..MaxTxns    *)
(* buys and sells in the last 5 minutes, next to pair B (1 buy, 9 sells).  *)
(***************************************************************************)
MaxTxns == 4
MaxRatioElapsed == 60

RatioPair(buys, sells) ==
    MkPair("solana", "pairA", "AAA", "SOL", P100, <<3000, 1>>, <<1000, 1>>,
           <<10, 1>>, <<10, 1>>, buys, sells, OldMs)

RatioFeeds == { <<RatioPair(b, s), PairB>> : b \in 0..MaxTxns, s \in 0..MaxTxns }

RatioResponses == {[kind |-> "ok", pairs |-> f] : f \in RatioFeeds}

InitRatio == initPaperTrading /\ sinkOK /\ resp \in RatioResponses

TickRatio == Tick(RatioResponses, {refreshInterval}, MaxRatioElapsed, {TRUE})

NextRatio == Scan \/ TickRatio

SpecRatio == InitRatio /\ [][NextRatio]_vars

(***************************************************************************)
(* C28: the buy/sell ratio of a snapshot is buys / (buys + sells) when it  *)
(* has at least one transaction and exactly 0.5 when it has none; for all  *)
(* non-negative counts it lies in [0,1].                                   *)
(***************************************************************************)
C28_BuySellRatio ==
    \A s \in {ScoredBatch} : \A i \in 1..Len(s) :
       \E b \in {Batch[i].Txns.M5.Buys} : \E n \in {Batch[i].Txns.M5.Sells} :
          /\ (b + n > 0) => s[i].M5BuySellRatio = RDiv(<<b, 1>>, <<b + n, 1>>)
          /\ (b + n = 0) => s[i].M5BuySellRatio = <<1, 2>>
          /\ InUnitRange(s[i].M5BuySellRatio)

\* a cycle has scored a snapshot without transactions (ratio 0.5) next to one
\* with 1 buy and 9 sells (ratio 0.1)
C28_Witness ==
    /\ pc = "wait"
    /\ \E s \in {ScoredBatch} :
          /\ Len(s) = 2
          /\ Batch[1].Txns.M5 = [Buys |-> 0, Sells |-> 0]
          /\ s[1].M5BuySellRatio = <<1, 2>>
          /\ Batch[2].Txns.M5 = [Buys |-> 1, Sells |-> 9]
          /\ s[2].M5BuySellRatio = <<1, 10>>

FailsAFilter(p) ==
    \/ p.QuoteToken.Symbol # "SOL"
    \/ RLt(p.Liquidity.Usd, <<2000, 1>>)
    \/ RLt(p.Volume.M5, <<500, 1>>)
    \/ now - (p.PairCreatedAt \div 1000) < 60 * 60
    \/ RLe(parseFloat(p.PriceNative, <<-1, 1>>), Zero)

\* the answer carries the held pair on Solana, and only in snapshots that fail a filter
HeldFilteredOut ==
    /\ resp.kind = "ok"
    /\ \E i \in 1..Len(resp.pairs) :
          /\ resp.pairs[i].ChainID = "solana"
          /\ resp.pairs[i].PairAddress = holding.PairAddress
    /\ \A i \in 1..Len(resp.pairs) :
          (resp.pairs[i].ChainID = "solana" /\ resp.pairs[i].PairAddress = holding.PairAddress)
             => FailsAFilter(resp.pairs[i])

C30_FilteredHeldPairIsAbsent ==
    [][(ScanStep /\ holding.Active /\ HeldFilteredOut) =>
         /\ ~Sold(console')
         /\ HasLine(console', "PAIR DATA NOT FOUND")
         /\ holding' = holding
         /\ wallet' = wallet]_vars

\* pair A, entered at liquidity 3000, came with liquidity 1999 (below 3000 * 0.7)
\* and is still held
C30_Witness ==
    /\ pc = "wait"
    /\ holding.Active /\ holding.PairAddress = "pairA"
    /\ holding.EntryLiquidityUSD = <<3000, 1>>
    /\ HeldFilteredOut
    /\ resp.pairs[1].Liquidity.Usd = <<1999, 1>>
    /\ RLt(resp.pairs[1].Liquidity.Usd, RMul(holding.EntryLiquidityUSD, Pct(70)))
    /\ HasLine(console, "PAIR DATA NOT FOUND")

(***************************************************************************)
(* C31 as claimed: in the trade log BUY and SELL records strictly          *)
(* alternate beginning with a BUY, and each SELL carries the pair address  *)
(* and token amount of the BUY record right before it.                     *)
(***************************************************************************)
\* records at odd places are BUYs, those at even places the matching SELLs
Alternates(file) ==
    \A i \in 1..Len(file) :
       IF i % 2 = 1
       THEN file[i].Action = "BUY"
       ELSE /\ file[i].Action = "SELL"
            /\ file[i].PairAddress = file[i - 1].PairAddress
            /\ file[i].TokenAmount = file[i - 1].TokenAmount

NoRecordLost ==
    Len(tradeLog) = 2 * wallet.TradesMade + (IF holding.Active THEN 1 ELSE 0)

C32_BalanceNeverNegative ==
    /\ [](~RLt(wallet.SOLBalance, Zero))
    /\ [][ScanStep =>
            /\ Sold(console') =>
                  /\ ~RLt(Net, Zero)
                  /\ ~RLt(wallet'.SOLBalance, wallet.SOLBalance) \/ Bought(console')
            /\ Bought(console') =>
                  RGe(IF Sold(console') THEN RAdd(wallet.SOLBalance, Net)
                      ELSE wallet.SOLBalance, <<1003, 1000>>)]_vars

\* a BUY has taken the balance below the price of another one
C32_Witness ==
    /\ pc = "wait"
    /\ Bought(console) /\ holding.Active
    /\ RGe(wallet.SOLBalance, Zero)
    /\ RLt(wallet.SOLBalance, tradeSizeSOL)

(***************************************************************************)
(* C33: in every reachable state 0 <= ProfitableTrades <= TradesMade, and  *)
(* TradesMade is the number of SELLs executed so far: it starts at 0, a    *)
(* cycle with a SELL adds 1 and any other cycle, a BUY included, leaves    *)
(* both counters unchanged.                                                *)
(***************************************************************************)
SellRecords == {i \in 1..Len(tradeLog) : tradeLog[i].Action = "SELL"}

C33_TradeCounters ==
    /\ [](/\ 0 <= wallet.ProfitableTrades
          /\ wallet.ProfitableTrades <= wallet.TradesMade
          /\ (pc = "scan" /\ now = StartTime) => wallet.TradesMade = 0
          /\ Cardinality(SellRecords) <= wallet.TradesMade
          /\ NoRecordLost => Cardinality(SellRecords) = wallet.TradesMade)
    /\ [][ScanStep =>
            /\ wallet'.TradesMade =
                  wallet.TradesMade + (IF Sold(console') THEN 1 ELSE 0)
            /\ wallet'.ProfitableTrades \in
                  {wallet.ProfitableTrades, wallet.ProfitableTrades + 1}
            /\ ~Sold(console') =>
                  wallet'.ProfitableTrades = wallet.ProfitableTrades]_vars
       /\ [][~ScanStep => wallet' = wallet]_vars

\* two losing SELLs counted and none profitable, a BUY following the second
C33_Witness ==
    /\ pc = "wait"
    /\ wallet.TradesMade = 2
    /\ wallet.ProfitableTrades = 0
    /\ Sold(console) /\ Bought(console)
    /\ holding.Active

(***************************************************************************)
(* C34 as claimed: SOLBalance + TotalFeesPaid = 10 - 1.0 * (number of BUY  *)
(* records) + the sum of the gross proceeds of all SELL records, and       *)
(* TotalFeesPaid = the sum of the fee fields of all trade log records.     *)
(***************************************************************************)
RECURSIVE FeeSum(_)
FeeSum(file) ==
    IF file = <<>> THEN Zero
    ELSE RAdd(FeeSum(SubSeq(file, 1, Len(file) - 1)), file[Len(file)].FeeSOL)

\* SOLAmount of a SELL record is the gross proceeds, of a BUY record the trade size
RECURSIVE SellGrossSum(_)
SellGrossSum(file) ==
    IF file = <<>> THEN Zero
    ELSE RAdd(SellGrossSum(SubSeq(file, 1, Len(file) - 1)),
              IF file[Len(file)].Action = "SELL" THEN file[Len(file)].SOLAmount
              ELSE Zero)

BuyRecords == {i \in 1..Len(tradeLog) : tradeLog[i].Action = "BUY"}

LedgerBalances ==
    /\ RAdd(wallet.SOLBalance, wallet.TotalFeesPaid) =
          RAdd(RSub(<<10, 1>>, <<Cardinality(BuyRecords), 1>>), SellGrossSum(tradeLog))
    /\ wallet.TotalFeesPaid = FeeSum(tradeLog)

=============================================================================
